---- MODULE Spec2Model ----
(***************************************************************************)
(* The notebook tree of "005 Visitor Pattern Exemplified in TypeScript":   *)
(* Node / TypedNode (Source/Tree.ts), Notebook / Page / Cell               *)
(* (Source/Notebook.ts) and the two exporters HtmlExporter / XmlExporter.  *)
(*                                                                         *)
(* Objects are named by strings drawn from finite pools; the i-th object   *)
(* a constructor builds takes the i-th name of its class's pool.           *)
(***************************************************************************)
EXTENDS FiniteSets, Integers, Sequences, TLC

(***************************************************************************)
(* Bounds: the object pools, the attribute values and the call counters.   *)
(***************************************************************************)
NotebookPool == <<"notebook">>
PagePool == <<"page1", "page2">>
ImageCellPool == <<"image1">>
SourceCodeCellPool == <<"code1">>
TextCellPool == <<"text1", "text2">>

NotebookTitles == {"My Coding Ideas"}
PageTitles == {"First Page", "Second Page"}
ImageUrls == {"https://www.my-awesome-website.abc/logo.png"}
SourceCodes == {"alert('Hello, World!');"}
Texts == {"Hello, World!", "Bye, World!"}

\* parent assignments (addCell included) in one run of Spec
MaxAssign == 2
\* addCell calls in one run of SpecExport
MaxAddCell == 4
\* export calls on one exporter instance
MaxExports == 1

Range(s) == {s[i] : i \in DOMAIN s}

Notebooks == Range(NotebookPool)
Pages == Range(PagePool)
ImageCells == Range(ImageCellPool)
SourceCodeCells == Range(SourceCodeCellPool)
TextCells == Range(TextCellPool)
Cells == ImageCells \cup SourceCodeCells \cup TextCells
Nodes == Notebooks \cup Pages \cup Cells

\* JavaScript's null and undefined: both falsy, both "no node"
NULL == "null"

VARIABLES
    created,     \* the nodes constructed so far
    _parent,     \* Node._parent of every node
    _children,   \* TypedNode._children of every node
    title,       \* Notebook.title / Page.title
    imageUrl,    \* ImageCell.imageUrl
    sourceCode,  \* SourceCodeCell.sourceCode
    text,        \* TextCell.text
    _html,       \* HtmlExporter._html of the one HtmlExporter instance
    _xml,        \* XmlExporter._xml of the one XmlExporter instance
    nExports,    \* export calls made so far on each exporter instance
    retired,     \* of each exporter class, the instance used before the current
                 \* one, if the driver kept one: its buffer and the number of
                 \* exports made on it
    stack,       \* the calls of the export in progress, the innermost last:
                 \* which method runs, on or with which node, how far it got
                 \* and which exporter operations it called
    walker,      \* the exporter class that export was called with
    attached,    \* for every node, the nodes in the order in which an
                 \* assignment `n.parent = p` first attached them to it
    nAssign,     \* parent assignments executed so far
    last         \* the operation executed last (see Op)

vars == <<created, _parent, _children, title, imageUrl, sourceCode, text,
          _html, _xml, nExports, retired, stack, walker, attached, nAssign, last>>

exporters == <<_html, _xml, nExports, retired, stack, walker>>

attrs == <<title, imageUrl, sourceCode, text>>

(***************************************************************************)
(* TypedNode: the child collection (Tree.ts 35-71).                        *)
(***************************************************************************)
\* Array.prototype.indexOf(child, 0): the first 0-based index, or -1
getIndexOfChild(kids, child) ==
    IF \E i \in DOMAIN kids : kids[i] = child
    THEN (CHOOSE i \in DOMAIN kids :
              /\ kids[i] = child
              /\ \A j \in DOMAIN kids : kids[j] = child => i <= j) - 1
    ELSE -1

\* splice(index, 1)
splice1(kids, index) ==
    [i \in 1..(Len(kids) - 1) |-> IF i <= index THEN kids[i] ELSE kids[i + 1]]

removeChild(kids, child) ==
    LET index == getIndexOfChild(kids, child)
    IN  IF index < 0 THEN kids ELSE splice1(kids, index)

\* addChild without its guard: pushes whether or not the item is present
addChild_push(kids, item) == Append(kids, item)

\* addChild with `index > 0` for `index >= 0`: a first child counts as absent
addChild_skipFirst(kids, item) ==
    LET index == getIndexOfChild(kids, item)
    IN  IF index > 0 THEN kids ELSE Append(kids, item)

\* addChild with unshift for push: the item goes to the front
addChild_unshift(kids, item) ==
    LET index == getIndexOfChild(kids, item)
    IN  IF index >= 0 THEN kids ELSE <<item>> \o kids

addChild(kids, item) ==
    LET index == getIndexOfChild(kids, item)
    IN  IF index >= 0 THEN kids ELSE Append(kids, item)

(***************************************************************************)
(* Node: the parent property (Tree.ts 3-34).                               *)
(***************************************************************************)
\* get parent()
parent(n) == _parent[n]

\* the setter making the node the only child of its new parent
setParent_replacing(n, value) ==
    IF value # NULL
    THEN [_children EXCEPT ![value] = <<n>>]
    ELSE _children

\* the setter attaching the wrong way round: value.addChild(this) written
\* as this.addChild(value)
setParent_reversed(n, value) ==
    IF value # NULL
    THEN [_children EXCEPT ![n] = addChild(@, value)]
    ELSE _children

\* set parent(value): the child collections after `n.parent = value`.
\* The setter stores nothing in _parent.
setParent(n, value) ==
    LET old == parent(n)
        detached == IF old # NULL
                    THEN [_children EXCEPT ![old] = removeChild(@, n)]
                    ELSE _children
    IN  IF value # NULL
        THEN [detached EXCEPT ![value] = addChild(@, n)]
        ELSE detached

\* the next unused name of a pool: the object a constructor call creates
Fresh(pool) ==
    {pool[i] : i \in {j \in DOMAIN pool :
                        /\ pool[j] \notin created
                        /\ \A k \in DOMAIN pool : k < j => pool[k] \in created}}

\* the attachment order after `n.parent = p`
Logged(n, p) ==
    IF p # NULL /\ n \notin Range(attached[p])
    THEN [attached EXCEPT ![p] = Append(@, n)]
    ELSE attached

\* the operations that run the parent setter: `n.parent = p` is executed
AssignOps == {"parent=", "addCell", "new Notebook", "new Page", "createPage",
              "new ImageCell", "new SourceCodeCell", "new TextCell"}

\* the record of an operation: its name, the node and the parent it is about,
\* the child collections and the exporters' buffers before it, whether it
\* repeats the assignment executed just before it, and (where a claim needs
\* it) a further argument
Op(name, n, p) ==
    [op |-> name, n |-> n, p |-> p, pre |-> _children,
     html |-> _html, xml |-> _xml, arg |-> NULL,
     again |-> /\ name \in AssignOps
               /\ last.op \in AssignOps
               /\ last.n = n
               /\ last.p = p]

Init ==
    /\ created = {}
    /\ _parent = [n \in Nodes |-> NULL]
    /\ _children = [n \in Nodes |-> <<>>]
    /\ title = [n \in Notebooks \cup Pages |-> NULL]
    /\ imageUrl = [n \in ImageCells |-> NULL]
    /\ sourceCode = [n \in SourceCodeCells |-> NULL]
    /\ text = [n \in TextCells |-> NULL]
    /\ _html = ""
    /\ _xml = "<?xml version=\"1.0\" encoding=\"UTF-8\"?>"
    /\ nExports = [e \in {"HtmlExporter", "XmlExporter"} |-> 0]
    /\ retired = [e \in {"HtmlExporter", "XmlExporter"} |->
                      [kept |-> FALSE, buf |-> "", n |-> 0]]
    /\ stack = <<>>
    /\ walker = NULL
    /\ attached = [n \in Nodes |-> <<>>]
    /\ nAssign = 0
    /\ last = [op |-> "init", n |-> NULL, p |-> NULL,
               pre |-> [n \in Nodes |-> <<>>],
               html |-> "", xml |-> "<?xml version=\"1.0\" encoding=\"UTF-8\"?>",
               arg |-> NULL, again |-> FALSE]

(***************************************************************************)
(* Constructors (Tree.ts 7-9, 37-42; Notebook.ts 11-13, 28-30, 44-69).     *)
(* Node's constructor runs `this.parent = parent`; the subclass's field    *)
(* initialisers (_children = [], the attribute) run after it returns.      *)
(***************************************************************************)
\* new Notebook(t)
NewNotebook(t) ==
    \E n \in Fresh(NotebookPool) :
        /\ created' = created \cup {n}
        /\ _children' = [setParent(n, NULL) EXCEPT ![n] = <<>>]
        /\ title' = [title EXCEPT ![n] = t]
        /\ last' = Op("new Notebook", n, NULL)
        /\ attached' = Logged(n, NULL)
        /\ UNCHANGED <<_parent, imageUrl, sourceCode, text, nAssign, exporters>>

\* the constructor of Page with parent p and title t, run by `new Page(p, t)`
\* or by createPage
PageConstructor(caller, p, t) ==
    \E n \in Fresh(PagePool) :
        /\ created' = created \cup {n}
        /\ _children' = [setParent(n, p) EXCEPT ![n] = <<>>]
        /\ title' = [title EXCEPT ![n] = t]
        /\ last' = [Op(caller, n, p) EXCEPT !.arg = t]
        /\ attached' = Logged(n, p)
        /\ UNCHANGED <<_parent, imageUrl, sourceCode, text, nAssign, exporters>>

\* new Page(p, t)
NewPage(p, t) == PageConstructor("new Page", p, t)

\* a createPage that constructs the page without a parent
createPage_detached(notebook, t) ==
    /\ notebook \in created \cap Notebooks
    /\ PageConstructor("createPage", NULL, t)

\* notebook.createPage(t)
createPage(notebook, t) ==
    /\ notebook \in created \cap Notebooks
    /\ PageConstructor("createPage", notebook, t)

\* new ImageCell(url)
NewImageCell(url) ==
    \E n \in Fresh(ImageCellPool) :
        /\ created' = created \cup {n}
        /\ _children' = [setParent(n, NULL) EXCEPT ![n] = <<>>]
        /\ imageUrl' = [imageUrl EXCEPT ![n] = url]
        /\ last' = Op("new ImageCell", n, NULL)
        /\ attached' = Logged(n, NULL)
        /\ UNCHANGED <<_parent, title, sourceCode, text, nAssign, exporters>>

\* new SourceCodeCell(code)
NewSourceCodeCell(code) ==
    \E n \in Fresh(SourceCodeCellPool) :
        /\ created' = created \cup {n}
        /\ _children' = [setParent(n, NULL) EXCEPT ![n] = <<>>]
        /\ sourceCode' = [sourceCode EXCEPT ![n] = code]
        /\ last' = Op("new SourceCodeCell", n, NULL)
        /\ attached' = Logged(n, NULL)
        /\ UNCHANGED <<_parent, title, imageUrl, text, nAssign, exporters>>

\* new TextCell(t)
NewTextCell(t) ==
    \E n \in Fresh(TextCellPool) :
        /\ created' = created \cup {n}
        /\ _children' = [setParent(n, NULL) EXCEPT ![n] = <<>>]
        /\ text' = [text EXCEPT ![n] = t]
        /\ last' = Op("new TextCell", n, NULL)
        /\ attached' = Logged(n, NULL)
        /\ UNCHANGED <<_parent, title, imageUrl, sourceCode, nAssign, exporters>>

(***************************************************************************)
(* Parent assignments.                                                     *)
(***************************************************************************)
\* n.parent = value
AssignParent(n, value) ==
    /\ n \in created
    /\ value \in created \cup {NULL}
    /\ _children' = setParent(n, value)
    /\ nAssign' = nAssign + 1
    /\ last' = Op("parent=", n, value)
    /\ attached' = Logged(n, value)
    /\ UNCHANGED <<created, _parent, attrs, exporters>>

\* page.addCell(cell)
addCell(page, cell) ==
    /\ page \in created \cap Pages
    /\ cell \in created \cap Cells
    /\ _children' = setParent(cell, page)
    /\ nAssign' = nAssign + 1
    /\ last' = Op("addCell", cell, page)
    /\ attached' = Logged(cell, page)
    /\ UNCHANGED <<created, _parent, attrs, exporters>>

(***************************************************************************)
(* Views of the child collection (Tree.ts 45-47; Notebook.ts 15-17, 32-34).*)
(***************************************************************************)
children(n) == _children[n]
pages(notebook) == children(notebook)
cells(page) == children(page)

(***************************************************************************)
(* HtmlExporter and XmlExporter (Tree.ts 74-158) and the nodes' export     *)
(* methods (Notebook.ts 23-25, 39-41, 53-55, 62-64, 71-73).  An exporter   *)
(* operation maps the buffer before the call to the buffer after it.       *)
(***************************************************************************)
\* appendHtmlLine with the newline after the line instead of before it
appendHtmlLine_trailing(buf, html) == buf \o html \o "\n"

appendHtmlLine(buf, html) == buf \o "\n" \o html
appendXmlLine(buf, xml) == buf \o "\n" \o xml

HtmlExporter_exportTextCell(buf, cell) ==
    appendHtmlLine(buf, "<p>" \o text[cell] \o "</p>")
HtmlExporter_exportSourceCodeCell(buf, cell) ==
    appendHtmlLine(buf, "<code>" \o sourceCode[cell] \o "</code>")
HtmlExporter_exportImageCell(buf, cell) ==
    appendHtmlLine(buf, "<img src=\"" \o imageUrl[cell] \o "\">")

XmlExporter_exportTextCell(buf, cell) ==
    appendXmlLine(buf, "<text>" \o text[cell] \o "</text>")
XmlExporter_exportSourceCodeCell(buf, cell) ==
    appendXmlLine(buf, "<code>" \o sourceCode[cell] \o "</code>")
\* exportImageCell of XmlExporter emitting the HTML exporter's tag
XmlExporter_exportImageCell_html(buf, cell) ==
    appendXmlLine(buf, "<img src=\"" \o imageUrl[cell] \o "\">")
XmlExporter_exportImageCell(buf, cell) ==
    appendXmlLine(buf, "<image url=\"" \o imageUrl[cell] \o "\" />")

RECURSIVE export(_, _, _)
RECURSIVE exportEach(_, _, _)

\* for(const child of nodes) { child.export(this); }
exportEach(nodes, exporter, buf) ==
    IF nodes = <<>>
    THEN buf
    ELSE exportEach(Tail(nodes), exporter, export(Head(nodes), exporter, buf))

HtmlExporter_exportPage(buf, page) ==
    LET opened == appendHtmlLine(appendHtmlLine(buf, "<section class=\"page\">"),
                                 "<h2>" \o title[page] \o "</h2>")
    IN  appendHtmlLine(exportEach(cells(page), "HtmlExporter", opened), "</section>")

HtmlExporter_exportNotebook(buf, notebook) ==
    LET opened == appendHtmlLine(appendHtmlLine(buf, "<main class=\"notebook\">"),
                                 "<h1>" \o title[notebook] \o "</h1>")
    IN  appendHtmlLine(exportEach(pages(notebook), "HtmlExporter", opened), "</main>")

XmlExporter_exportPage(buf, page) ==
    LET opened == appendXmlLine(buf, "<page title=\"" \o title[page] \o "\">")
    IN  appendXmlLine(exportEach(cells(page), "XmlExporter", opened), "</page>")

\* exportNotebook starting from a reset buffer
XmlExporter_exportNotebook_reset(buf, notebook) ==
    LET opened == appendXmlLine("<?xml version=\"1.0\" encoding=\"UTF-8\"?>",
                                "<notebook title=\"" \o title[notebook] \o "\">")
    IN  appendXmlLine(exportEach(pages(notebook), "XmlExporter", opened), "</notebook>")

XmlExporter_exportNotebook(buf, notebook) ==
    LET opened == appendXmlLine(buf, "<notebook title=\"" \o title[notebook] \o "\">")
    IN  appendXmlLine(exportEach(pages(notebook), "XmlExporter", opened), "</notebook>")

\* the NodeExporter interface: the call goes to the exporter's own class
exportNotebook(exporter, buf, notebook) ==
    IF exporter = "HtmlExporter" THEN HtmlExporter_exportNotebook(buf, notebook)
                                 ELSE XmlExporter_exportNotebook(buf, notebook)
exportPage(exporter, buf, page) ==
    IF exporter = "HtmlExporter" THEN HtmlExporter_exportPage(buf, page)
                                 ELSE XmlExporter_exportPage(buf, page)
exportImageCell(exporter, buf, cell) ==
    IF exporter = "HtmlExporter" THEN HtmlExporter_exportImageCell(buf, cell)
                                 ELSE XmlExporter_exportImageCell(buf, cell)
exportSourceCodeCell(exporter, buf, cell) ==
    IF exporter = "HtmlExporter" THEN HtmlExporter_exportSourceCodeCell(buf, cell)
                                 ELSE XmlExporter_exportSourceCodeCell(buf, cell)
exportTextCell(exporter, buf, cell) ==
    IF exporter = "HtmlExporter" THEN HtmlExporter_exportTextCell(buf, cell)
                                 ELSE XmlExporter_exportTextCell(buf, cell)

\* node.export(exporter): each class forwards itself to its own operation
export(node, exporter, buf) ==
    CASE node \in Notebooks       -> exportNotebook(exporter, buf, node)
      [] node \in Pages           -> exportPage(exporter, buf, node)
      [] node \in ImageCells      -> exportImageCell(exporter, buf, node)
      [] node \in SourceCodeCells -> exportSourceCodeCell(exporter, buf, node)
      [] node \in TextCells       -> exportTextCell(exporter, buf, node)

\* node.export(htmlExporter)
ExportHtml(node) ==
    /\ node \in created
    /\ _html' = export(node, "HtmlExporter", _html)
    /\ nExports' = [nExports EXCEPT !["HtmlExporter"] = @ + 1]
    /\ last' = Op("export html", node, NULL)
    /\ UNCHANGED <<created, _parent, _children, attrs, _xml, retired, stack, walker, attached, nAssign>>

\* node.export(xmlExporter)
ExportXml(node) ==
    /\ node \in created
    /\ _xml' = export(node, "XmlExporter", _xml)
    /\ nExports' = [nExports EXCEPT !["XmlExporter"] = @ + 1]
    /\ last' = Op("export xml", node, NULL)
    /\ UNCHANGED <<created, _parent, _children, attrs, _html, retired, stack, walker, attached, nAssign>>

(***************************************************************************)
(* Spec: the tree operations, with parent assignments to any node.         *)
(***************************************************************************)
Next ==
    \/ \E t \in NotebookTitles : NewNotebook(t)
    \/ \E t \in PageTitles : NewPage(NULL, t)
    \/ \E nb \in Notebooks, t \in PageTitles : createPage(nb, t)
    \/ \E t \in Texts : NewTextCell(t)
    \/ nAssign < MaxAssign /\ \E n \in Nodes, p \in Nodes \cup {NULL} : AssignParent(n, p)
    \/ nAssign < MaxAssign /\ \E pg \in Pages, c \in Cells : addCell(pg, c)

Spec == Init /\ [][Next]_vars

(***************************************************************************)
(* SpecExport: the shape of the demo driver (src/unnamed/part_000): a      *)
(* notebook is built with createPage and addCell, then it is exported.     *)
(***************************************************************************)
Building == \A e \in DOMAIN nExports : nExports[e] = 0 /\ ~retired[e].kept

NextExport ==
    \/ Building /\ \E t \in NotebookTitles : NewNotebook(t)
    \/ Building /\ \E nb \in Notebooks, t \in PageTitles : createPage(nb, t)
    \/ Building /\ \E url \in ImageUrls : NewImageCell(url)
    \/ Building /\ \E code \in SourceCodes : NewSourceCodeCell(code)
    \/ Building /\ \E t \in Texts : NewTextCell(t)
    \/ Building /\ nAssign < MaxAddCell /\ \E pg \in Pages, c \in Cells : addCell(pg, c)
    \/ nExports["HtmlExporter"] < MaxExports /\ \E nb \in Notebooks : ExportHtml(nb)
    \/ nExports["XmlExporter"] < MaxExports /\ \E nb \in Notebooks : ExportXml(nb)

SpecExport == Init /\ [][NextExport]_vars

(***************************************************************************)
(* SpecDemo: the demo driver from the point where its notebook is built    *)
(* (src/unnamed/part_000, line 11).  Cells may still be added to pages;    *)
(* then the notebook is exported, any number of times up to MaxReuse on    *)
(* one exporter instance, and the driver may replace an exporter by a new  *)
(* instance, keeping the one it used before.                               *)
(***************************************************************************)
MaxReuse == 2

\* the state after `page2.addCell(new TextCell("Bye, World!"))`
InitDemo ==
    /\ created = Nodes
    /\ _parent = [n \in Nodes |-> NULL]
    /\ _children = [n \in Nodes |->
                        CASE n = "notebook" -> <<"page1", "page2">>
                          [] n = "page1"    -> <<"image1", "code1", "text1">>
                          [] n = "page2"    -> <<"text2">>
                          [] OTHER          -> <<>>]
    /\ title = [n \in Notebooks \cup Pages |->
                    CASE n = "notebook" -> "My Coding Ideas"
                      [] n = "page1"    -> "First Page"
                      [] n = "page2"    -> "Second Page"]
    /\ imageUrl = [n \in ImageCells |-> "https://www.my-awesome-website.abc/logo.png"]
    /\ sourceCode = [n \in SourceCodeCells |-> "alert('Hello, World!');"]
    /\ text = [n \in TextCells |->
                   IF n = "text1" THEN "Hello, World!" ELSE "Bye, World!"]
    /\ _html = ""
    /\ _xml = "<?xml version=\"1.0\" encoding=\"UTF-8\"?>"
    /\ nExports = [e \in {"HtmlExporter", "XmlExporter"} |-> 0]
    /\ retired = [e \in {"HtmlExporter", "XmlExporter"} |->
                      [kept |-> FALSE, buf |-> "", n |-> 0]]
    /\ stack = <<>>
    /\ walker = NULL
    /\ attached = _children
    /\ nAssign = 0
    /\ last = [op |-> "addCell", n |-> "text2", p |-> "page2",
               pre |-> [_children EXCEPT !["page2"] = <<>>],
               html |-> _html, xml |-> _xml, arg |-> NULL, again |-> FALSE]

\* a constructor that does not give the new instance a buffer of its own
NewHtmlExporter_shared ==
    /\ retired' = [retired EXCEPT !["HtmlExporter"] =
                       [kept |-> TRUE, buf |-> _html, n |-> nExports["HtmlExporter"]]]
    /\ nExports' = [nExports EXCEPT !["HtmlExporter"] = 0]
    /\ last' = Op("new HtmlExporter", NULL, NULL)
    /\ UNCHANGED <<created, _parent, _children, attrs, _html, _xml, stack, walker, attached, nAssign>>

\* htmlExporter = new HtmlExporter(): the variable now names a new instance
\* with an empty buffer; the instance it named before is kept as it is
NewHtmlExporter ==
    /\ retired' = [retired EXCEPT !["HtmlExporter"] =
                       [kept |-> TRUE, buf |-> _html, n |-> nExports["HtmlExporter"]]]
    /\ _html' = ""
    /\ nExports' = [nExports EXCEPT !["HtmlExporter"] = 0]
    /\ last' = Op("new HtmlExporter", NULL, NULL)
    /\ UNCHANGED <<created, _parent, _children, attrs, _xml, stack, walker, attached, nAssign>>

\* xmlExporter = new XmlExporter(): the new instance's buffer holds the preamble
NewXmlExporter ==
    /\ retired' = [retired EXCEPT !["XmlExporter"] =
                       [kept |-> TRUE, buf |-> _xml, n |-> nExports["XmlExporter"]]]
    /\ _xml' = "<?xml version=\"1.0\" encoding=\"UTF-8\"?>"
    /\ nExports' = [nExports EXCEPT !["XmlExporter"] = 0]
    /\ last' = Op("new XmlExporter", NULL, NULL)
    /\ UNCHANGED <<created, _parent, _children, attrs, _html, stack, walker, attached, nAssign>>

NextDemo ==
    \/ Building /\ nAssign < MaxAssign /\ \E pg \in Pages, c \in Cells : addCell(pg, c)
    \/ nExports["HtmlExporter"] < MaxReuse /\ \E nb \in Notebooks : ExportHtml(nb)
    \/ nExports["XmlExporter"] < MaxReuse /\ \E nb \in Notebooks : ExportXml(nb)
    \/ nExports["HtmlExporter"] > 0 /\ NewHtmlExporter
    \/ nExports["XmlExporter"] > 0 /\ NewXmlExporter

SpecDemo == InitDemo /\ [][NextDemo]_vars

(***************************************************************************)
(* Properties of the tree operations, checked under Spec.                  *)
(***************************************************************************)
InChildren(n, p) == \E i \in DOMAIN _children[p] : _children[p][i] = n
WasInChildren(n, p) == \E i \in DOMAIN last.pre[p] : last.pre[p][i] = n

\* the operation executed last was `n.parent = p`
Assigned(n, p) == last.n = n /\ last.p = p /\ last.op \in AssignOps

Kids(ch, S) == UNION {Range(ch[x]) : x \in S}
RECURSIVE Closure(_, _)
Closure(ch, S) == IF Kids(ch, S) \subseteq S THEN S ELSE Closure(ch, S \cup Kids(ch, S))
\* the nodes reachable from n by following children one or more times
Descendants(ch, n) == Closure(ch, Kids(ch, {n}))
\* (a node without children has no descendants)
Acyclic(ch) == \A n \in Nodes : ch[n] # <<>> => n \notin Descendants(ch, n)

\* C1: after `n.parent = p` with p non-null, n is in p.children and in no
\* other node's children.
C1_ReparentingPostcondition ==
    \A n \in Nodes, p \in Nodes :
        Assigned(n, p) =>
            /\ InChildren(n, p)
            /\ \A q \in Nodes \ {p} : ~InChildren(n, q)

\* C2: after `n.parent = null`, n is in no node's children.
C2_Detach ==
    \A n \in Nodes :
        Assigned(n, NULL) => \A q \in Nodes : ~InChildren(n, q)

\* C3: n is in p.children if and only if reading n.parent yields p, and
\* n.parent yields no owner exactly when n is in no children collection.
C3_ReferentialConsistency ==
    \A n \in created :
        /\ \A p \in Nodes : InChildren(n, p) <=> parent(n) = p
        /\ parent(n) = NULL <=> \A p \in Nodes : ~InChildren(n, p)

\* C4 as stated: in every reachable state no node is reachable from itself
\* by following children.
C4_Forest == Acyclic(_children)

\* C4 amended: an operation that does not place a node under itself or one
\* of its descendants keeps the children relation free of cycles (last.pre
\* is the relation before the operation, _children the one after it).
C4_ForestWhenGuarded ==
    (/\ Acyclic(last.pre)
     /\ last.op \in AssignOps
     /\ last.p \notin ({last.n} \cup Descendants(last.pre, last.n)))
    => Acyclic(_children)

\* a node with a child of its own was attached under a node that is not one
\* of its descendants
C4_Witness ==
    /\ last.op = "parent="
    /\ last.p \in Nodes
    /\ last.pre[last.n] # <<>>
    /\ ~WasInChildren(last.n, last.p)
    /\ last.p \notin ({last.n} \cup Descendants(last.pre, last.n))
    /\ InChildren(last.n, last.p)
    /\ Acyclic(_children)

\* C5: `n.parent = p` executed a second time right after `n.parent = p`
\* leaves p.children as the first assignment left it, with n in it once.
C5_IdempotentAttach ==
    last.again =>
        \A n \in Nodes, p \in Nodes :
            Assigned(n, p) =>
                /\ _children[p] = last.pre[p]
                /\ Cardinality({i \in DOMAIN _children[p] : _children[p][i] = n}) = 1

C5_Witness ==
    /\ last.op = "parent="
    /\ last.again
    /\ last.p \in Nodes
    /\ Len(_children[last.p]) >= 2

\* C6: no node's children sequence holds the same node at two positions.
C6_NoDuplicateChildren ==
    \A p \in Nodes : \A i, j \in DOMAIN _children[p] :
        _children[p][i] = _children[p][j] => i = j

\* a node was assigned the parent whose first child it already was
C6_Witness ==
    /\ last.op \in {"parent=", "addCell"}
    /\ last.p \in Nodes
    /\ last.pre[last.p] # <<>>
    /\ last.pre[last.p][1] = last.n
    /\ InChildren(last.n, last.p)

Index(kids, n) == CHOOSE i \in DOMAIN kids : kids[i] = n

\* C7: every operation keeps the relative order of the children that stay
\* in p.children, and a child that enters p.children gets a higher index
\* than every child already present.
C7_AttachmentOrder ==
    \A p \in Nodes :
        LET before == last.pre[p]
            after == _children[p]
        IN  \A a, b \in Range(after) :
                /\ (/\ a \in Range(before)
                    /\ b \in Range(before)
                    /\ Index(before, a) < Index(before, b))
                   => Index(after, a) < Index(after, b)
                /\ (a \in Range(before) /\ b \notin Range(before))
                   => Index(after, a) < Index(after, b)

\* a third child was attached to a node that had two
C7_Witness ==
    /\ last.op \in AssignOps
    /\ last.p \in Nodes
    /\ last.n # last.p
    /\ Len(last.pre[last.p]) >= 2
    /\ ~WasInChildren(last.n, last.p)
    /\ InChildren(last.n, last.p)

\* C8: n was a child of p but not the last one; n was detached (n.parent =
\* null, or n.parent = q for another node q); then `n.parent = p` makes n
\* the last element of p.children and takes it from its old position.
C8_ReattachAppends ==
    [][\A n \in Nodes, p \in Nodes :
         (/\ last.op = "parent="
          /\ last.n = n
          /\ last.p # p
          /\ WasInChildren(n, p)
          /\ Index(last.pre[p], n) < Len(last.pre[p])
          /\ last'.op = "parent="
          /\ last'.n = n
          /\ last'.p = p)
         => /\ _children'[p] # <<>>
            /\ _children'[p][Len(_children'[p])] = n
            /\ _children'[p][Index(last.pre[p], n)] # n]_vars

(***************************************************************************)
(* Properties of the exporters, checked under SpecExport.                  *)
(***************************************************************************)
\* the buffer text of a sequence of lines, each preceded by a newline
RECURSIVE JoinLines(_)
JoinLines(lines) ==
    IF lines = <<>> THEN "" ELSE "\n" \o Head(lines) \o JoinLines(Tail(lines))

RECURSIVE Flatten(_)
Flatten(seqs) == IF seqs = <<>> THEN <<>> ELSE Head(seqs) \o Flatten(Tail(seqs))

HtmlCellLine(c) ==
    CASE c \in ImageCells      -> "<img src=\"" \o imageUrl[c] \o "\">"
      [] c \in SourceCodeCells -> "<code>" \o sourceCode[c] \o "</code>"
      [] c \in TextCells       -> "<p>" \o text[c] \o "</p>"

HtmlPageLines(pg) ==
    <<"<section class=\"page\">", "<h2>" \o title[pg] \o "</h2>">>
    \o [i \in DOMAIN cells(pg) |-> HtmlCellLine(cells(pg)[i])]
    \o <<"</section>">>

HtmlNotebookLines(nb) ==
    <<"<main class=\"notebook\">", "<h1>" \o title[nb] \o "</h1>">>
    \o Flatten([i \in DOMAIN pages(nb) |-> HtmlPageLines(pages(nb)[i])])
    \o <<"</main>">>

XmlCellLine(c) ==
    CASE c \in ImageCells      -> "<image url=\"" \o imageUrl[c] \o "\" />"
      [] c \in SourceCodeCells -> "<code>" \o sourceCode[c] \o "</code>"
      [] c \in TextCells       -> "<text>" \o text[c] \o "</text>"

XmlPageLines(pg) ==
    <<"<page title=\"" \o title[pg] \o "\">">>
    \o [i \in DOMAIN cells(pg) |-> XmlCellLine(cells(pg)[i])]
    \o <<"</page>">>

XmlNotebookLines(nb) ==
    <<"<notebook title=\"" \o title[nb] \o "\">">>
    \o Flatten([i \in DOMAIN pages(nb) |-> XmlPageLines(pages(nb)[i])])
    \o <<"</notebook>">>

\* the notebook the demo driver builds (src/unnamed/part_000, lines 5-11)
SampleNotebook ==
    /\ title["notebook"] = "My Coding Ideas"
    /\ pages("notebook") = <<"page1", "page2">>
    /\ title["page1"] = "First Page"
    /\ title["page2"] = "Second Page"
    /\ cells("page1") = <<"image1", "code1", "text1">>
    /\ cells("page2") = <<"text2">>
    /\ imageUrl["image1"] = "https://www.my-awesome-website.abc/logo.png"
    /\ sourceCode["code1"] = "alert('Hello, World!');"
    /\ text["text1"] = "Hello, World!"
    /\ text["text2"] = "Bye, World!"

\* the console output the article shows for it (Index.md, lines 391-403),
\* without the article's indentation
ArticleHtmlLines ==
    << "<main class=\"notebook\">",
       "<h1>My Coding Ideas</h1>",
       "<section class=\"page\">",
       "<h2>First Page</h2>",
       "<img src=\"https://www.my-awesome-website.abc/logo.png\">",
       "<code>alert('Hello, World!');</code>",
       "<p>Hello, World!</p>",
       "</section>",
       "<section class=\"page\">",
       "<h2>Second Page</h2>",
       "<p>Bye, World!</p>",
       "</section>",
       "</main>" >>

\* notebook nb was just exported to the HtmlExporter, which was fresh
HtmlExported(nb) ==
    last.op = "export html" /\ last.n = nb /\ nExports["HtmlExporter"] = 1

\* notebook nb was just exported to the XmlExporter, which was fresh
XmlExported(nb) ==
    last.op = "export xml" /\ last.n = nb /\ nExports["XmlExporter"] = 1

HtmlShape(nb) == _html = JoinLines(HtmlNotebookLines(nb))

\* C9 as stated: the export of a notebook to a fresh HtmlExporter leaves the
\* line sequence of the format in html, each line preceded by a newline; for
\* the sample notebook it is the article's sequence, of 12 lines.
C9_HtmlShape12 ==
    \A nb \in Notebooks :
        HtmlExported(nb) =>
            /\ HtmlShape(nb)
            /\ SampleNotebook =>
                   /\ _html = JoinLines(ArticleHtmlLines)
                   /\ Len(HtmlNotebookLines(nb)) = 12

\* C9 amended: the same, the sample notebook's sequence having 13 lines.
C9_HtmlShape ==
    \A nb \in Notebooks :
        HtmlExported(nb) =>
            /\ HtmlShape(nb)
            /\ SampleNotebook =>
                   /\ _html = JoinLines(ArticleHtmlLines)
                   /\ Len(HtmlNotebookLines(nb)) = 13

C9_Witness == HtmlExported("notebook") /\ SampleNotebook

Frame(fn, node) == [fn |-> fn, node |-> node, i |-> 0, called |-> <<>>]
Top == stack[Len(stack)]
Popped == SubSeq(stack, 1, Len(stack) - 1)
Idle == stack = <<>>

\* Page.export forwarding to the operation for notebooks
OperationOf_pageAsNotebook(node) ==
    CASE node \in Notebooks       -> "exportNotebook"
      [] node \in Pages           -> "exportNotebook"
      [] node \in ImageCells      -> "exportImageCell"
      [] node \in SourceCodeCells -> "exportSourceCodeCell"
      [] node \in TextCells       -> "exportTextCell"

\* the exporter operation that the export method of node's class calls
OperationOf(node) ==
    CASE node \in Notebooks       -> "exportNotebook"
      [] node \in Pages           -> "exportPage"
      [] node \in ImageCells      -> "exportImageCell"
      [] node \in SourceCodeCells -> "exportSourceCodeCell"
      [] node \in TextCells       -> "exportTextCell"

\* what exportNotebook and exportPage append before and after their loop
HtmlExporter_openNotebook(buf, notebook) ==
    appendHtmlLine(appendHtmlLine(buf, "<main class=\"notebook\">"),
                   "<h1>" \o title[notebook] \o "</h1>")
\* an exportNotebook that forgets its closing line
HtmlExporter_closeNotebook_forgotten(buf) == buf

HtmlExporter_closeNotebook(buf) == appendHtmlLine(buf, "</main>")
HtmlExporter_openPage(buf, page) ==
    appendHtmlLine(appendHtmlLine(buf, "<section class=\"page\">"),
                   "<h2>" \o title[page] \o "</h2>")
HtmlExporter_closePage(buf) == appendHtmlLine(buf, "</section>")
XmlExporter_openNotebook(buf, notebook) ==
    appendXmlLine(buf, "<notebook title=\"" \o title[notebook] \o "\">")
XmlExporter_closeNotebook(buf) == appendXmlLine(buf, "</notebook>")
XmlExporter_openPage(buf, page) ==
    appendXmlLine(buf, "<page title=\"" \o title[page] \o "\">")
XmlExporter_closePage(buf) == appendXmlLine(buf, "</page>")

\* the exporter in use writes its buffer; the other one's is left alone
Emit(html, xml) ==
    /\ _html' = IF walker = "HtmlExporter" THEN html ELSE _html
    /\ _xml' = IF walker = "XmlExporter" THEN xml ELSE _xml

\* the driver calls node.export(exporter)
Begin(node, exporter) ==
    /\ Idle
    /\ node \in created
    /\ stack' = <<Frame("export", node)>>
    /\ walker' = exporter
    /\ nExports' = [nExports EXCEPT ![exporter] = @ + 1]
    /\ last' = Op(IF exporter = "HtmlExporter" THEN "export html" ELSE "export xml",
                  node, NULL)
    /\ UNCHANGED <<created, _parent, _children, attrs, _html, _xml, retired,
                   attached, nAssign>>

\* node.export(exporter) calls the exporter's operation for its class, with
\* the node as the argument
Walk_export ==
    /\ ~Idle /\ Top.fn = "export" /\ Top.i = 0
    /\ stack' = Append([stack EXCEPT ![Len(stack)] =
                            [@ EXCEPT !.i = 1,
                                      !.called = Append(@, <<OperationOf(Top.node),
                                                             Top.node>>)]],
                       Frame(OperationOf(Top.node), Top.node))
    /\ UNCHANGED <<created, _parent, _children, attrs, _html, _xml, nExports,
                   retired, walker, attached, nAssign, last>>

\* the operation has returned, and node.export(exporter) returns
Walk_return ==
    /\ ~Idle /\ Top.fn = "export" /\ Top.i = 1
    /\ stack' = Popped
    /\ UNCHANGED <<created, _parent, _children, attrs, _html, _xml, nExports,
                   retired, walker, attached, nAssign, last>>

\* exporter.exportNotebook(notebook): the opening lines, then one iteration
\* of the loop over notebook.pages per step, then the closing line
Walk_exportNotebook ==
    /\ ~Idle /\ Top.fn = "exportNotebook"
    /\ IF Top.i = 0
       THEN /\ Emit(HtmlExporter_openNotebook(_html, Top.node),
                    XmlExporter_openNotebook(_xml, Top.node))
            /\ stack' = [stack EXCEPT ![Len(stack)].i = 1]
       ELSE IF Top.i <= Len(pages(Top.node))
       THEN /\ stack' = Append([stack EXCEPT ![Len(stack)].i = @ + 1],
                               Frame("export", pages(Top.node)[Top.i]))
            /\ UNCHANGED <<_html, _xml>>
       ELSE /\ Emit(HtmlExporter_closeNotebook(_html), XmlExporter_closeNotebook(_xml))
            /\ stack' = Popped
    /\ UNCHANGED <<created, _parent, _children, attrs, nExports, retired, walker,
                   attached, nAssign, last>>

\* an exportPage that empties page.cells when it is done
Walk_exportPage_consuming ==
    /\ ~Idle /\ Top.fn = "exportPage"
    /\ IF Top.i = 0
       THEN /\ Emit(HtmlExporter_openPage(_html, Top.node),
                    XmlExporter_openPage(_xml, Top.node))
            /\ stack' = [stack EXCEPT ![Len(stack)].i = 1]
            /\ UNCHANGED _children
       ELSE IF Top.i <= Len(cells(Top.node))
       THEN /\ stack' = Append([stack EXCEPT ![Len(stack)].i = @ + 1],
                               Frame("export", cells(Top.node)[Top.i]))
            /\ UNCHANGED <<_html, _xml, _children>>
       ELSE /\ Emit(HtmlExporter_closePage(_html), XmlExporter_closePage(_xml))
            /\ stack' = Popped
            /\ _children' = [_children EXCEPT ![Top.node] = <<>>]
    /\ UNCHANGED <<created, _parent, attrs, nExports, retired, walker,
                   attached, nAssign, last>>

\* exporter.exportPage(page), likewise over page.cells
Walk_exportPage ==
    /\ ~Idle /\ Top.fn = "exportPage"
    /\ IF Top.i = 0
       THEN /\ Emit(HtmlExporter_openPage(_html, Top.node),
                    XmlExporter_openPage(_xml, Top.node))
            /\ stack' = [stack EXCEPT ![Len(stack)].i = 1]
       ELSE IF Top.i <= Len(cells(Top.node))
       THEN /\ stack' = Append([stack EXCEPT ![Len(stack)].i = @ + 1],
                               Frame("export", cells(Top.node)[Top.i]))
            /\ UNCHANGED <<_html, _xml>>
       ELSE /\ Emit(HtmlExporter_closePage(_html), XmlExporter_closePage(_xml))
            /\ stack' = Popped
    /\ UNCHANGED <<created, _parent, _children, attrs, nExports, retired, walker,
                   attached, nAssign, last>>

\* exporter.exportImageCell(cell)
Walk_exportImageCell ==
    /\ ~Idle /\ Top.fn = "exportImageCell"
    /\ Emit(HtmlExporter_exportImageCell(_html, Top.node),
            XmlExporter_exportImageCell(_xml, Top.node))
    /\ stack' = Popped
    /\ UNCHANGED <<created, _parent, _children, attrs, nExports, retired, walker,
                   attached, nAssign, last>>

\* exporter.exportSourceCodeCell(cell)
Walk_exportSourceCodeCell ==
    /\ ~Idle /\ Top.fn = "exportSourceCodeCell"
    /\ Emit(HtmlExporter_exportSourceCodeCell(_html, Top.node),
            XmlExporter_exportSourceCodeCell(_xml, Top.node))
    /\ stack' = Popped
    /\ UNCHANGED <<created, _parent, _children, attrs, nExports, retired, walker,
                   attached, nAssign, last>>

\* exporter.exportTextCell(cell)
Walk_exportTextCell ==
    /\ ~Idle /\ Top.fn = "exportTextCell"
    /\ Emit(HtmlExporter_exportTextCell(_html, Top.node),
            XmlExporter_exportTextCell(_xml, Top.node))
    /\ stack' = Popped
    /\ UNCHANGED <<created, _parent, _children, attrs, nExports, retired, walker,
                   attached, nAssign, last>>

\* the next step of the export in progress
Walk ==
    \/ Walk_export
    \/ Walk_return
    \/ Walk_exportNotebook
    \/ Walk_exportPage
    \/ Walk_exportImageCell
    \/ Walk_exportSourceCodeCell
    \/ Walk_exportTextCell

(***************************************************************************)
(* SpecWalk: the demo driver from the point where its first page is        *)
(* filled (src/unnamed/part_000, line 9).  The second page and its cell    *)
(* may be created, and up to MaxWalkAssign parent assignments and addCell  *)
(* calls made, none of which places a node under itself or under one of    *)
(* its descendants; then one node is exported to one exporter.             *)
(***************************************************************************)
MaxWalkAssign == 1

\* the state after `page1.addCell(new TextCell("Hello, World!"))`
InitWalk ==
    /\ created = {"notebook", "page1", "image1", "code1", "text1"}
    /\ _parent = [n \in Nodes |-> NULL]
    /\ _children = [n \in Nodes |->
                        CASE n = "notebook" -> <<"page1">>
                          [] n = "page1"    -> <<"image1", "code1", "text1">>
                          [] OTHER          -> <<>>]
    /\ title = [n \in Notebooks \cup Pages |->
                    CASE n = "notebook" -> "My Coding Ideas"
                      [] n = "page1"    -> "First Page"
                      [] OTHER          -> NULL]
    /\ imageUrl = [n \in ImageCells |-> "https://www.my-awesome-website.abc/logo.png"]
    /\ sourceCode = [n \in SourceCodeCells |-> "alert('Hello, World!');"]
    /\ text = [n \in TextCells |-> IF n = "text1" THEN "Hello, World!" ELSE NULL]
    /\ _html = ""
    /\ _xml = "<?xml version=\"1.0\" encoding=\"UTF-8\"?>"
    /\ nExports = [e \in {"HtmlExporter", "XmlExporter"} |-> 0]
    /\ retired = [e \in {"HtmlExporter", "XmlExporter"} |->
                      [kept |-> FALSE, buf |-> "", n |-> 0]]
    /\ stack = <<>>
    /\ walker = NULL
    /\ attached = _children
    /\ nAssign = 0
    /\ last = [op |-> "addCell", n |-> "text1", p |-> "page1",
               pre |-> [_children EXCEPT !["page1"] = <<"image1", "code1">>],
               html |-> _html, xml |-> _xml, arg |-> NULL, again |-> FALSE]

\* `n.parent = p` does not place n under itself or under a descendant of n
Guarded(n, p) == p \notin ({n} \cup Descendants(_children, n))

NextWalk ==
    \/ Idle /\ Building /\ createPage("notebook", "Second Page")
    \/ Idle /\ Building /\ NewTextCell("Bye, World!")
    \/ Idle /\ Building /\ nAssign < MaxWalkAssign
         /\ \E n \in Nodes, p \in Nodes \cup {NULL} : Guarded(n, p) /\ AssignParent(n, p)
    \/ Idle /\ Building /\ nAssign < MaxWalkAssign
         /\ \E pg \in Pages, c \in Cells : Guarded(c, pg) /\ addCell(pg, c)
    \/ Building /\ \E n \in Nodes, e \in {"HtmlExporter", "XmlExporter"} : Begin(n, e)
    \/ Walk

SpecWalk == InitWalk /\ [][NextWalk]_vars

\* an export in progress is not abandoned
SpecWalkFair == SpecWalk /\ WF_vars(Walk)

(***************************************************************************)
(* SpecView: a caller of the demo driver's notebook changes the array it   *)
(* got from `children`, `pages` or `cells`.  The getter returns            *)
(* this._children itself (Tree.ts 45-47), so the array the caller holds is *)
(* the node's child collection.  After addCell calls the caller makes one  *)
(* such change.                                                            *)
(***************************************************************************)
ViewOps == {"children.push", "children.pop", "children.reverse"}

RECURSIVE Reverse(_)
Reverse(seq) == IF seq = <<>> THEN <<>> ELSE Append(Reverse(Tail(seq)), Head(seq))

\* n.children.push(x)
ViewPush(n, x) ==
    /\ n \in created /\ x \in created
    /\ _children' = [_children EXCEPT ![n] = Append(children(n), x)]
    /\ last' = Op("children.push", x, n)
    /\ UNCHANGED <<created, _parent, attrs, exporters, attached, nAssign>>

\* n.children.pop()
ViewPop(n) ==
    /\ n \in created /\ children(n) # <<>>
    /\ _children' = [_children EXCEPT ![n] = SubSeq(children(n), 1, Len(children(n)) - 1)]
    /\ last' = Op("children.pop", NULL, n)
    /\ UNCHANGED <<created, _parent, attrs, exporters, attached, nAssign>>

\* n.children.reverse()
ViewReverse(n) ==
    /\ n \in created
    /\ _children' = [_children EXCEPT ![n] = Reverse(children(n))]
    /\ last' = Op("children.reverse", NULL, n)
    /\ UNCHANGED <<created, _parent, attrs, exporters, attached, nAssign>>

NextView ==
    \/ last.op \notin ViewOps /\ nAssign < MaxAssign
         /\ \E pg \in Pages, c \in Cells : addCell(pg, c)
    \/ last.op \notin ViewOps /\ \E n \in Nodes, x \in Nodes : ViewPush(n, x)
    \/ last.op \notin ViewOps /\ \E n \in Nodes : ViewPop(n)
    \/ last.op \notin ViewOps /\ \E n \in Nodes : ViewReverse(n)

SpecView == InitDemo /\ [][NextView]_vars

(***************************************************************************)
(* SpecReparent: parent assignments and addCell calls, with any node as    *)
(* the child and any node or null as the parent, on the demo driver's      *)
(* notebook.                                                               *)
(***************************************************************************)
NextReparent ==
    \/ nAssign < MaxAssign /\ \E n \in Nodes, p \in Nodes \cup {NULL} : AssignParent(n, p)
    \/ nAssign < MaxAssign /\ \E pg \in Pages, c \in Cells : addCell(pg, c)

SpecReparent == InitDemo /\ [][NextReparent]_vars

(***************************************************************************)
(* Properties of repeated exports, checked under SpecDemo.                 *)
(***************************************************************************)
\* the line sequences of the two formats, the pages of a notebook and the
\* cells of a page taken in the order `order` gives
HtmlPageLinesIn(order, pg) ==
    <<"<section class=\"page\">", "<h2>" \o title[pg] \o "</h2>">>
    \o [i \in DOMAIN order[pg] |-> HtmlCellLine(order[pg][i])]
    \o <<"</section>">>

HtmlNotebookLinesIn(order, nb) ==
    <<"<main class=\"notebook\">", "<h1>" \o title[nb] \o "</h1>">>
    \o Flatten([i \in DOMAIN order[nb] |-> HtmlPageLinesIn(order, order[nb][i])])
    \o <<"</main>">>

XmlPageLinesIn(order, pg) ==
    <<"<page title=\"" \o title[pg] \o "\">">>
    \o [i \in DOMAIN order[pg] |-> XmlCellLine(order[pg][i])]
    \o <<"</page>">>

XmlNotebookLinesIn(order, nb) ==
    <<"<notebook title=\"" \o title[nb] \o "\">">>
    \o Flatten([i \in DOMAIN order[nb] |-> XmlPageLinesIn(order, order[nb][i])])
    \o <<"</notebook>">>

\* the current instance of the class and the one used before it have each
\* exported once, so each was fresh when it exported
TwoFreshExports(e) ==
    nExports[e] = 1 /\ retired[e].kept /\ retired[e].n = 1

HtmlLines(n) ==
    CASE n \in Notebooks -> HtmlNotebookLines(n)
      [] n \in Pages     -> HtmlPageLines(n)
      [] n \in Cells     -> <<HtmlCellLine(n)>>

XmlLines(n) ==
    CASE n \in Notebooks -> XmlNotebookLines(n)
      [] n \in Pages     -> XmlPageLines(n)
      [] n \in Cells     -> <<XmlCellLine(n)>>

\* C12: an exporter's buffer only grows.  Each exporter operation, applied to
\* any node with the buffer as it is, returns the buffer followed by the
\* node's lines; an export leaves in the buffer what it held before, followed
\* by the notebook's lines, and does not touch the other exporter's buffer; a
\* second export with the same instance leaves the first export's buffer
\* followed by the notebook's lines once more, the XML preamble occurring at
\* the start only.
C12_AppendOnly ==
    /\ \A n \in created :
           /\ export(n, "HtmlExporter", _html) = _html \o JoinLines(HtmlLines(n))
           /\ export(n, "XmlExporter", _xml) = _xml \o JoinLines(XmlLines(n))
    /\ last.op = "export html" =>
           /\ _html = last.html \o JoinLines(HtmlNotebookLines(last.n))
           /\ _xml = last.xml
           /\ nExports["HtmlExporter"] = 2 =>
                  /\ last.html = JoinLines(HtmlNotebookLines(last.n))
                  /\ _html = JoinLines(HtmlNotebookLines(last.n))
                             \o JoinLines(HtmlNotebookLines(last.n))
    /\ last.op = "export xml" =>
           /\ _xml = last.xml \o JoinLines(XmlNotebookLines(last.n))
           /\ _html = last.html
           /\ nExports["XmlExporter"] = 2 =>
                  /\ last.xml = "<?xml version=\"1.0\" encoding=\"UTF-8\"?>"
                                \o JoinLines(XmlNotebookLines(last.n))
                  /\ _xml = "<?xml version=\"1.0\" encoding=\"UTF-8\"?>"
                            \o JoinLines(XmlNotebookLines(last.n))
                            \o JoinLines(XmlNotebookLines(last.n))

\* the notebook, with a cell added to a page, was exported twice with the
\* same XmlExporter after it had been exported twice with the same
\* HtmlExporter
C12_Witness ==
    /\ last.op = "export xml"
    /\ nExports["XmlExporter"] = 2
    /\ nExports["HtmlExporter"] = 2
    /\ nAssign > 0
\* sequence seq without the occurrences of x
Without(seq, x) == SelectSeq(seq, LAMBDA y : y # x)

\* the cell added last was in another page of the notebook before
MovedCell ==
    /\ last.op = "addCell"
    /\ \E a \in Pages \ {last.p} :
           /\ WasInChildren(last.n, a)
           /\ {a, last.p} \subseteq Range(pages("notebook"))

\* the child collections as the claim has them after the move: the cell is a
\* cell of the page it was added to last and of no other page
MovedOrder ==
    [q \in Nodes |-> IF q \in Pages \ {last.p}
                     THEN Without(_children[q], last.n)
                     ELSE _children[q]]

\* C19: when a cell that was added to page a has been added to another page b
\* of the same notebook, the export of the notebook to a fresh exporter that
\* follows has the cell's line once, in the block of page b, and not in the
\* block of page a.
C19_MovedCellExportedOnce ==
    [][/\ (MovedCell /\ last'.op = "export html" /\ nExports'["HtmlExporter"] = 1)
           => _html' = JoinLines(HtmlNotebookLinesIn(MovedOrder, "notebook"))
       /\ (MovedCell /\ last'.op = "export xml" /\ nExports'["XmlExporter"] = 1)
           => _xml' = "<?xml version=\"1.0\" encoding=\"UTF-8\"?>"
                      \o JoinLines(XmlNotebookLinesIn(MovedOrder, "notebook"))]_vars

(***************************************************************************)
(* Properties of the export call by call, checked under SpecWalk.          *)
(***************************************************************************)
\* a step of an export: the call itself or a step of a call it made
ExportStep == stack' # stack

\* C13: no step of node.export(exporter), for any node and either exporter,
\* changes a children sequence, a parent reference or an attribute; of the
\* two buffers only that of the exporter in use may change.
C13_ExportLeavesTree ==
    [][ExportStep =>
          /\ UNCHANGED <<created, _parent, _children>>
          /\ UNCHANGED <<title, imageUrl, sourceCode, text>>
          /\ walker' = "HtmlExporter" => _xml' = _xml
          /\ walker' = "XmlExporter" => _html' = _html]_vars

\* the export of a page with cells returned and has changed the buffer
C13_Witness ==
    /\ Idle
    /\ last.op = "export xml"
    /\ last.n \in Pages
    /\ cells(last.n) # <<>>
    /\ _xml # last.xml
    /\ _children = last.pre
(***************************************************************************)
(* Properties of the views, checked under SpecView.                        *)
(***************************************************************************)
\* C14: a caller that adds to, removes from or reorders the sequence that
\* `children`, `pages` or `cells` returned does not change the child
\* collection of any node.
C14_ReadOnlyView ==
    last.op \in ViewOps => _children = last.pre
\* the lines of node n in a structure in which any node may be the child of
\* any other: a notebook and a page enclose the lines of their children,
\* whatever these are, and a cell is one line
RECURSIVE HtmlTreeLines(_)
HtmlTreeLines(n) ==
    CASE n \in Notebooks ->
             <<"<main class=\"notebook\">", "<h1>" \o title[n] \o "</h1>">>
             \o Flatten([i \in DOMAIN children(n) |-> HtmlTreeLines(children(n)[i])])
             \o <<"</main>">>
      [] n \in Pages ->
             <<"<section class=\"page\">", "<h2>" \o title[n] \o "</h2>">>
             \o Flatten([i \in DOMAIN children(n) |-> HtmlTreeLines(children(n)[i])])
             \o <<"</section>">>
      [] n \in Cells -> <<HtmlCellLine(n)>>

RECURSIVE XmlTreeLines(_)
XmlTreeLines(n) ==
    CASE n \in Notebooks ->
             <<"<notebook title=\"" \o title[n] \o "\">">>
             \o Flatten([i \in DOMAIN children(n) |-> XmlTreeLines(children(n)[i])])
             \o <<"</notebook>">>
      [] n \in Pages ->
             <<"<page title=\"" \o title[n] \o "\">">>
             \o Flatten([i \in DOMAIN children(n) |-> XmlTreeLines(children(n)[i])])
             \o <<"</page>">>
      [] n \in Cells -> <<XmlCellLine(n)>>

\* the export call made last has returned
Returned(op) == Idle /\ last.op = op /\ nExports # [e \in DOMAIN nExports |-> 0]

\* the operations are defined on every structure the guarded assignments
\* build: whenever the driver can make a call, each call can be made, and an
\* export in progress always has a next step
C16_Total ==
    /\ Acyclic(_children)
    /\ Idle =>
           /\ \A n \in created, p \in created \cup {NULL} :
                  Guarded(n, p) => ENABLED AssignParent(n, p)
           /\ \A pg \in created \cap Pages, c \in created \cap Cells :
                  Guarded(c, pg) => ENABLED addCell(pg, c)
           /\ \A nb \in created \cap Notebooks :
                  Fresh(PagePool) # {} => ENABLED createPage(nb, "Second Page")
           /\ \A n \in created, e \in {"HtmlExporter", "XmlExporter"} :
                  ENABLED Begin(n, e)
    /\ ~Idle => ENABLED Walk

\* when the export of a node has returned, the buffer holds what it held
\* before, followed by the node's lines; for a notebook the last of these is
\* the closing marker
C16_ClosingMarker ==
    /\ Returned("export html") =>
           /\ _html = last.html \o JoinLines(HtmlTreeLines(last.n))
           /\ _html = export(last.n, "HtmlExporter", last.html)
           /\ last.n \in Notebooks =>
                  HtmlTreeLines(last.n)[Len(HtmlTreeLines(last.n))] = "</main>"
    /\ Returned("export xml") =>
           /\ _xml = last.xml \o JoinLines(XmlTreeLines(last.n))
           /\ _xml = export(last.n, "XmlExporter", last.xml)
           /\ last.n \in Notebooks =>
                  XmlTreeLines(last.n)[Len(XmlTreeLines(last.n))] = "</notebook>"

\* C16: on every structure built by constructors, createPage, addCell and
\* parent assignments that place no node under itself or under one of its
\* descendants, every parent assignment, createPage, addCell and export call
\* can be made and runs without getting stuck; every export that was called
\* returns; and when the export of a notebook has returned, the last line of
\* the buffer is the notebook's closing marker.
C16_TotalAndTerminates ==
    /\ [](C16_Total /\ C16_ClosingMarker)
    /\ (~Idle) ~> Idle

\* the export of a notebook returned that had walked through a child that
\* a parent assignment had given a second place in the structure
C16_Witness ==
    /\ Returned("export html")
    /\ last.n \in Notebooks
    /\ \E n \in Nodes, p, q \in Nodes :
           p # q /\ InChildren(n, p) /\ InChildren(n, q)
           /\ {p, q} \subseteq {last.n} \cup Descendants(_children, last.n)

\* the name of the concrete class of node x
ClassOf(x) ==
    CASE x \in Notebooks       -> "Notebook"
      [] x \in Pages           -> "Page"
      [] x \in ImageCells      -> "ImageCell"
      [] x \in SourceCodeCells -> "SourceCodeCell"
      [] x \in TextCells       -> "TextCell"

\* C18: a call x.export(exporter) in progress has either made no call yet or
\* made exactly one call into the exporter, of the operation named after
\* x's class, with x as the argument; it returns after that one call, and
\* the call it waits for is that call.
C18_DoubleDispatch ==
    \A k \in DOMAIN stack :
        stack[k].fn = "export" =>
            LET x == stack[k].node
                theCall == <<"export" \o ClassOf(x), x>>
            IN  /\ stack[k].i = 0 => stack[k].called = <<>> /\ k = Len(stack)
                /\ stack[k].i # 0 => stack[k].called = <<theCall>>
                /\ k < Len(stack) =>
                       /\ stack[k + 1].fn = theCall[1]
                       /\ stack[k + 1].node = x

\* inside the export of a notebook to the XmlExporter, the export of a text
\* cell of a page is about to return, while those of the page and of the
\* notebook wait for their calls
C18_Witness ==
    /\ walker = "XmlExporter"
    /\ Len(stack) = 5
    /\ stack[1].node \in Notebooks
    /\ stack[3].node \in Pages
    /\ Top.fn = "export" /\ Top.node \in TextCells /\ Top.i = 1

(***************************************************************************)
(* Further properties of the tree operations: C15 checked under Spec, C20  *)
(* under SpecReparent.                                                     *)
(***************************************************************************)
\* C15: after `nb.createPage(t)` the page it made is new (it was in no child
\* collection), has title t and no cells, and nb.pages is what it was before
\* the call followed by the page.
C15_CreatePageAttaches ==
    last.op = "createPage" =>
        /\ last.p \in Notebooks
        /\ last.n \in Pages
        /\ \A q \in Nodes : ~WasInChildren(last.n, q)
        /\ title[last.n] = last.arg
        /\ cells(last.n) = <<>>
        /\ pages(last.p) = Append(last.pre[last.p], last.n)

\* createPage was called on a notebook that had a page
C15_Witness ==
    /\ last.op = "createPage"
    /\ last.pre[last.p] # <<>>
    /\ Len(pages(last.p)) = 2
\* what `n.parent = p` may change: of the children sequences those of p and
\* of the nodes that held n, and in these only whether and where n occurs;
\* not n's own children, not an attribute
ReparentingFrame(n, p) ==
    /\ \A q \in Nodes : Without(_children'[q], n) = Without(_children[q], n)
    /\ \A q \in Nodes \ {p} : ~InChildren(n, q) => _children'[q] = _children[q]
    /\ _children'[n] = _children[n]
    /\ UNCHANGED <<title, imageUrl, sourceCode, text>>

\* C20 as stated: the frame holds of every assignment `n.parent = p`.
C20_Frame ==
    [][nAssign' # nAssign => ReparentingFrame(last'.n, last'.p)]_vars

\* C20 amended: the frame holds of every assignment `n.parent = p` in which p
\* is not n itself.
C20_FrameUnlessSelf ==
    [][(nAssign' # nAssign /\ last'.p # last'.n)
           => ReparentingFrame(last'.n, last'.p)]_vars

\* a node with children that another node held was assigned a parent that
\* had a child
C20_Witness ==
    /\ last.op = "parent="
    /\ last.p \in Nodes \ {last.n}
    /\ last.pre[last.p] # <<>>
    /\ last.pre[last.n] # <<>>
    /\ ~WasInChildren(last.n, last.p)
    /\ \E q \in Nodes \ {last.p} : WasInChildren(last.n, q)

====
